---- MODULE Spec2Model ----
(***************************************************************************)
(* Chess exhibition (chess_sim.py): one grandmaster coroutine rotates      *)
(* among NumPlayers chess_player coroutines.  Every player owns a pair of  *)
(* asyncio.Queue objects: playerToGM (the player's out_channel) and        *)
(* gmToPlayer (the player's in_channel).                                   *)
(*                                                                         *)
(* Granularity.  asyncio runs one task at a time and switches tasks only   *)
(* at an await that really suspends.  Every action below is one run of a   *)
(* task from such a point: Queue.put on an unbounded queue never suspends  *)
(* and is part of the action that reaches it; Queue.get is an action of    *)
(* its own, enabled when the queue is non-empty (a get on an empty queue   *)
(* parks the task until a put wakes it); asyncio.sleep is a timer that     *)
(* fires at a time the model does not fix.  Which ready task runs next is  *)
(* left open, so every order the event loop can produce is covered.        *)
(***************************************************************************)
EXTENDS Integers, Sequences, FiniteSets, TLC

\* ---- bounds -------------------------------------------------------------
NumPlayers == 2
MaxMove == 2

Players == 0 .. (NumPlayers - 1)

\* ---- PossibleActions ----------------------------------------------------
MAKE_MOVE == "MAKE_MOVE"
RESIGN == "RESIGN"
GRANDMASTER_ARRIVES == "GRANDMASTER_ARRIVES"
PossibleActions == {MAKE_MOVE, RESIGN, GRANDMASTER_ARRIVES}

VARIABLES
  pc,          \* pc[i]: position of chess_player i
  moveIdx,     \* moveIdx[i]: the loop variable i of chess_player i (0 before the first round)
  thinkTask,   \* thinkTask[i]: state of thinking_task of the current round
  getTask,     \* getTask[i]: state of grandmaster_arrives_task of the current round
  finThink,    \* finThink[i]: finished_thinking of the current round
  playerToGM,  \* playerToGM[i]: player_move_channel of player i (FIFO)
  gmToPlayer,  \* gmToPlayer[i]: grandmaster_move_channel of player i (FIFO)
  gpc,         \* position of the grandmaster
  gi,          \* loop variable i of the grandmaster's for loop
  gmMove,      \* the grandmaster's local variable move
  finished,    \* finished_player_ids
  mainPc,      \* position of main
  outHist,     \* history: outHist[i] = every signal player i ever put on playerToGM[i]
  inHist,      \* history: inHist[i] = every signal the grandmaster ever put on gmToPlayer[i]
  sweepLog,    \* history: boards visited (arrival sent) in the current sweep, in order
  sweepSkip    \* history: boards skipped in the current sweep

vars == <<pc, moveIdx, thinkTask, getTask, finThink, playerToGM, gmToPlayer,
          gpc, gi, gmMove, finished, mainPc, outHist, inHist, sweepLog, sweepSkip>>

playerVars == <<pc, moveIdx, thinkTask, getTask, finThink>>
gmVars == <<gpc, gi, gmMove, finished, sweepLog, sweepSkip>>
chanVars == <<playerToGM, gmToPlayer, outHist, inHist>>

TaskStates == {"none", "pending", "done", "cancelled"}

\* ---- helpers ------------------------------------------------------------
\* number of occurrences of signal s in sequence q
Count(q, s) == Len(SelectSeq(q, LAMBDA x : x = s))

\* the set of signals in sequence q
Range(q) == {q[k] : k \in 1 .. Len(q)}

\* number of visits the grandmaster has started to player i
Visits(i) == Count(inHist[i], GRANDMASTER_ARRIVES)

\* Task.cancel() on a task of `pending`: a task that is done stays done
CancelIgnored(t) == t

Cancel(t) == IF t = "pending" THEN "cancelled" ELSE t

\* the signal chess_player sends once has_resigned is drawn
PlayerSignalArrives(has_resigned) == IF has_resigned THEN RESIGN ELSE GRANDMASTER_ARRIVES

PlayerSignal(has_resigned) == IF has_resigned THEN RESIGN ELSE MAKE_MOVE

\* where chess_player goes after its put: break after RESIGN, the while True
\* loop after MAKE_MOVE
AfterSendNoBreak(has_resigned) == "wait"

AfterSend(has_resigned) == IF has_resigned THEN "done" ELSE "wait"

\* match grandmaster_move: what each case does to the while True loop
DispatchArrivesBreaks(sig) ==
  CASE sig = RESIGN -> "return"
    [] sig = MAKE_MOVE -> "break"
    [] sig = GRANDMASTER_ARRIVES -> "break"

DispatchMoveReturns(sig) ==
  CASE sig = RESIGN -> "return"
    [] sig = MAKE_MOVE -> "return"
    [] sig = GRANDMASTER_ARRIVES -> "pass"

DispatchResignPass(sig) ==
  CASE sig = RESIGN -> "pass"
    [] sig = MAKE_MOVE -> "break"
    [] sig = GRANDMASTER_ARRIVES -> "pass"

Dispatch(sig) ==
  CASE sig = RESIGN -> "return"
    [] sig = MAKE_MOVE -> "break"
    [] sig = GRANDMASTER_ARRIVES -> "pass"

\* finished_player_ids.add(i)
MarkFinishedNoop(i) == finished

MarkFinishedReplace(i) == {i}

MarkFinished(i) == finished \cup {i}

\* the condition of the grandmaster's while loop
SweepAgainOffByOne == Cardinality(finished) < NumPlayers - 1

SweepAgain == Cardinality(finished) < NumPlayers

Init ==
  /\ pc = [i \in Players |-> "init"]
  /\ moveIdx = [i \in Players |-> 0]
  /\ thinkTask = [i \in Players |-> "none"]
  /\ getTask = [i \in Players |-> "none"]
  /\ finThink = [i \in Players |-> FALSE]
  /\ playerToGM = [i \in Players |-> <<>>]
  /\ gmToPlayer = [i \in Players |-> <<>>]
  /\ gpc = "while"
  /\ gi = 0
  /\ gmMove = "none"
  /\ finished = {}
  /\ mainPc = "gather"
  /\ outHist = [i \in Players |-> <<>>]
  /\ inHist = [i \in Players |-> <<>>]
  /\ sweepLog = <<>>
  /\ sweepSkip = {}

\* ---- chess_player -------------------------------------------------------
\* Top of the for loop up to the await of asyncio.wait: next value of i,
\* the two tasks of the race are created.
StartRound(i) ==
  /\ moveIdx' = [moveIdx EXCEPT ![i] = @ + 1]
  /\ thinkTask' = [thinkTask EXCEPT ![i] = "pending"]
  /\ getTask' = [getTask EXCEPT ![i] = "pending"]
  /\ pc' = [pc EXCEPT ![i] = "race"]

\* First run of the task of chess_player i.
PlayerBegin(i) ==
  /\ pc[i] = "init"
  /\ StartRound(i)
  /\ UNCHANGED <<finThink, chanVars, gmVars, mainPc>>

\* thinking_task: asyncio.sleep(move_duration) returns.
ThinkingDone(i) ==
  /\ thinkTask[i] = "pending"
  /\ thinkTask' = [thinkTask EXCEPT ![i] = "done"]
  /\ UNCHANGED <<pc, moveIdx, getTask, finThink, chanVars, gmVars, mainPc>>

\* grandmaster_arrives_task: in_channel.get() returns an item; the
\* result of the task is never read.
ArrivesTaskGet(i) ==
  /\ getTask[i] = "pending"
  /\ gmToPlayer[i] # <<>>
  /\ gmToPlayer' = [gmToPlayer EXCEPT ![i] = Tail(@)]
  /\ getTask' = [getTask EXCEPT ![i] = "done"]
  /\ UNCHANGED <<pc, moveIdx, thinkTask, finThink, playerToGM, outHist, inHist,
                 gmVars, mainPc>>

\* asyncio.wait returns (FIRST_COMPLETED); the pending task is cancelled,
\* has_resigned is drawn, and the player puts RESIGN and leaves the loop or
\* puts MAKE_MOVE and goes on to wait for the grandmaster.
PlayerDecide(i) ==
  /\ pc[i] = "race"
  /\ thinkTask[i] = "done" \/ getTask[i] = "done"
  /\ thinkTask' = [thinkTask EXCEPT ![i] = Cancel(@)]
  /\ getTask' = [getTask EXCEPT ![i] = Cancel(@)]
  /\ finThink' = [finThink EXCEPT ![i] = (thinkTask[i] = "done")]
  /\ \E has_resigned \in BOOLEAN :
       /\ playerToGM' = [playerToGM EXCEPT ![i] = Append(@, PlayerSignal(has_resigned))]
       /\ outHist' = [outHist EXCEPT ![i] = Append(@, PlayerSignal(has_resigned))]
       /\ pc' = [pc EXCEPT ![i] = AfterSend(has_resigned)]
  /\ UNCHANGED <<moveIdx, gmToPlayer, inHist, gmVars, mainPc>>

\* One in_channel.get() of the while True loop and the match on its result.
PlayerReceive(i) ==
  /\ pc[i] = "wait"
  /\ gmToPlayer[i] # <<>>
  /\ gmToPlayer' = [gmToPlayer EXCEPT ![i] = Tail(@)]
  /\ CASE Dispatch(Head(gmToPlayer[i])) = "return" ->
            /\ pc' = [pc EXCEPT ![i] = "done"]
            /\ UNCHANGED <<moveIdx, thinkTask, getTask>>
       [] Dispatch(Head(gmToPlayer[i])) = "break" ->
            StartRound(i)
       [] OTHER ->
            UNCHANGED <<pc, moveIdx, thinkTask, getTask>>
  /\ UNCHANGED <<finThink, playerToGM, outHist, inHist, gmVars, mainPc>>

\* ---- grandmaster --------------------------------------------------------
\* The for loop moves on from board i; after the last board the while
\* condition is evaluated next.
NextBoardBreak(i) == gpc' = "while" /\ gi' = i + 1

NextBoard(i) ==
  IF i + 1 < NumPlayers
    THEN gpc' = "for" /\ gi' = i + 1
    ELSE gpc' = "while" /\ gi' = i + 1

\* while len(finished_player_ids) < len(in_and_out_channel_pairs)
GMWhile ==
  /\ gpc = "while"
  /\ IF SweepAgain
       THEN gpc' = "for" /\ gi' = 0
       ELSE gpc' = "done" /\ gi' = gi
  /\ sweepLog' = <<>>
  /\ sweepSkip' = {}
  /\ UNCHANGED <<gmMove, finished, playerVars, chanVars, mainPc>>

\* if i in finished_player_ids: continue
GMSkip(i) ==
  /\ gpc = "for"
  /\ gi = i
  /\ i \in finished
  /\ NextBoard(i)
  /\ sweepSkip' = sweepSkip \cup {i}
  /\ UNCHANGED <<gmMove, finished, sweepLog, playerVars, chanVars, mainPc>>

\* out_channel.put(GRANDMASTER_ARRIVES), then the await of in_channel.get()
GMArrive(i) ==
  /\ gpc = "for"
  /\ gi = i
  /\ i \notin finished
  /\ gmToPlayer' = [gmToPlayer EXCEPT ![i] = Append(@, GRANDMASTER_ARRIVES)]
  /\ inHist' = [inHist EXCEPT ![i] = Append(@, GRANDMASTER_ARRIVES)]
  /\ gpc' = "get"
  /\ sweepLog' = Append(sweepLog, i)
  /\ UNCHANGED <<gi, gmMove, finished, sweepSkip, playerToGM, outHist, playerVars, mainPc>>

\* move = await in_channel.get(); RESIGN finishes the player, MAKE_MOVE
\* starts the grandmaster's sleep, anything else fails the assert.
GMGet(i) ==
  /\ gpc = "get"
  /\ gi = i
  /\ playerToGM[i] # <<>>
  /\ playerToGM' = [playerToGM EXCEPT ![i] = Tail(@)]
  /\ gmMove' = Head(playerToGM[i])
  /\ CASE Head(playerToGM[i]) = RESIGN ->
            /\ finished' = MarkFinished(i)
            /\ NextBoard(i)
       [] Head(playerToGM[i]) = MAKE_MOVE ->
            /\ gpc' = "sleep"
            /\ UNCHANGED <<gi, finished>>
       [] OTHER ->
            /\ gpc' = "assert_failed"
            /\ UNCHANGED <<gi, finished>>
  /\ UNCHANGED <<sweepLog, sweepSkip, gmToPlayer, outHist, inHist, playerVars, mainPc>>

\* asyncio.sleep returns; should_resign is drawn; the grandmaster puts RESIGN
\* and finishes the player, or puts MAKE_MOVE.  The draw that keeps the game
\* going is cut off after MaxMove visits to the board.
GMReply(i) ==
  /\ gpc = "sleep"
  /\ gi = i
  /\ \E should_resign \in BOOLEAN :
       /\ should_resign \/ Visits(i) < MaxMove
       /\ gmToPlayer' = [gmToPlayer EXCEPT ![i] =
              Append(@, IF should_resign THEN RESIGN ELSE MAKE_MOVE)]
       /\ inHist' = [inHist EXCEPT ![i] =
              Append(@, IF should_resign THEN RESIGN ELSE MAKE_MOVE)]
       /\ finished' = IF should_resign THEN MarkFinished(i) ELSE finished
  /\ NextBoard(i)
  /\ UNCHANGED <<gmMove, sweepLog, sweepSkip, playerToGM, outHist, playerVars, mainPc>>

\* ---- main ---------------------------------------------------------------
\* await asyncio.gather(*coroutines) returns once every task has returned.
MainReturn ==
  /\ mainPc = "gather"
  /\ gpc = "done"
  /\ \A i \in Players : pc[i] = "done"
  /\ mainPc' = "returned"
  /\ UNCHANGED <<playerVars, gmVars, chanVars>>

\* ---- specification ------------------------------------------------------
PlayerStep(i) ==
  \/ PlayerBegin(i)
  \/ ThinkingDone(i)
  \/ ArrivesTaskGet(i)
  \/ PlayerDecide(i)
  \/ PlayerReceive(i)

GMStep ==
  \/ GMWhile
  \/ \E i \in Players : GMSkip(i)
  \/ \E i \in Players : GMArrive(i)
  \/ \E i \in Players : GMGet(i)
  \/ \E i \in Players : GMReply(i)

Next ==
  \/ \E i \in Players : PlayerStep(i)
  \/ GMStep
  \/ MainReturn

Spec == Init /\ [][Next]_vars

\* The event loop does not stop while a task is ready or a timer is set.
FairSpec == Spec /\ WF_vars(Next)

TypeOK ==
  /\ pc \in [Players -> {"init", "race", "wait", "done"}]
  /\ moveIdx \in [Players -> 0 .. MaxMove]
  /\ thinkTask \in [Players -> TaskStates]
  /\ getTask \in [Players -> TaskStates]
  /\ finThink \in [Players -> BOOLEAN]
  /\ gpc \in {"while", "for", "get", "sleep", "done", "assert_failed"}
  /\ gi \in 0 .. NumPlayers
  /\ finished \subseteq Players
  /\ mainPc \in {"gather", "returned"}

\* ---- derived counts -----------------------------------------------------
\* MAKE_MOVEs player i has put on its outbound channel
MovesSent(i) == Count(outHist[i], MAKE_MOVE)

\* grandmaster responses (MAKE_MOVE or RESIGN) put on player i's inbound channel
Replies(i) == Count(inHist[i], MAKE_MOVE) + Count(inHist[i], RESIGN)

\* grandmaster responses already dequeued from player i's inbound channel
RepliesTaken(i) ==
  Replies(i) - Count(gmToPlayer[i], MAKE_MOVE) - Count(gmToPlayer[i], RESIGN)

PlayerResigned(i) == RESIGN \in Range(outHist[i])
GMResignedTo(i) == RESIGN \in Range(inHist[i])

\* the grandmaster has dequeued the RESIGN of player i
ResignCollected(i) == PlayerResigned(i) /\ playerToGM[i] = <<>>

AllExited == gpc = "done" /\ \A i \in Players : pc[i] = "done"

\* a task parked on a receive from an empty channel
PlayerBlocked(i) ==
  /\ gmToPlayer[i] = <<>>
  /\ \/ pc[i] = "wait"
     \/ pc[i] = "race" /\ thinkTask[i] = "pending" /\ getTask[i] = "pending"
GMBlocked == gpc = "get" /\ playerToGM[gi] = <<>>

\* ---- C1 -----------------------------------------------------------------
RoundTripInv ==
  \A i \in Players :
    /\ Replies(i) <= MovesSent(i)
    /\ MovesSent(i) <= Replies(i) + 1
    /\ pc[i] \in {"init", "race", "done"} => RepliesTaken(i) = MovesSent(i)

\* C1: every MAKE_MOVE a player puts is eventually answered by exactly one
\* grandmaster response (MAKE_MOVE or RESIGN) on that player's inbound
\* channel; the player is in its next round or has exited only when it has
\* dequeued that response; at most one MAKE_MOVE per player is unanswered.
C1_RoundTrip ==
  /\ []RoundTripInv
  /\ \A i \in Players :
       (MovesSent(i) > Replies(i)) ~> (MovesSent(i) = RepliesTaken(i))

C1_Witness ==
  \E i \in Players :
    /\ pc[i] = "race"
    /\ moveIdx[i] = 2
    /\ MovesSent(i) = 1
    /\ RepliesTaken(i) = 1

\* ---- C2 -----------------------------------------------------------------
\* C2: while some actor has not terminated some step is enabled, and no
\* actor stays parked on a channel receive forever; a receive that lost the
\* race takes nothing that a later receive waits for.
C2_NoStall ==
  /\ [](~AllExited => ENABLED Next)
  /\ \A i \in Players : PlayerBlocked(i) ~> ~PlayerBlocked(i)
  /\ GMBlocked ~> ~GMBlocked

\* the receive lost the race of round 1; in round 2 the receive of the race
\* has taken the arrival and the grandmaster is parked on the player's move
C2_Witness ==
  \E i \in Players :
    /\ moveIdx[i] = 2
    /\ finThink[i]
    /\ pc[i] = "race"
    /\ getTask[i] = "done"
    /\ thinkTask[i] = "pending"
    /\ GMBlocked
    /\ gi = i

C4_NoProtocolViolation ==
  /\ \A i \in Players : Range(playerToGM[i]) \subseteq {MAKE_MOVE, RESIGN}
  /\ gmMove \in {"none", MAKE_MOVE, RESIGN}
  /\ gpc # "assert_failed"

C4_Witness == gpc = "sleep" /\ gmMove = MAKE_MOVE

\* ---- C5 -----------------------------------------------------------------
\* C5: once player i has put RESIGN, no later step puts on its outbound
\* channel or dequeues from its inbound channel.
C5_ResignedPlayerSilent ==
  [][\A i \in Players :
       PlayerResigned(i) =>
         /\ outHist'[i] = outHist[i]
         /\ Len(gmToPlayer'[i]) >= Len(gmToPlayer[i])]_vars

\* the arrival of the grandmaster lies undequeued at a resigned player
C5_Witness ==
  \E i \in Players :
    /\ PlayerResigned(i)
    /\ pc[i] = "done"
    /\ getTask[i] = "cancelled"
    /\ gmToPlayer[i] = <<GRANDMASTER_ARRIVES>>
    /\ ResignCollected(i)

\* ---- C6 -----------------------------------------------------------------
\* C6: once the grandmaster has put RESIGN on player i's inbound channel it
\* puts nothing more on that channel, dequeues nothing from player i's
\* outbound channel, holds i in its finished set and starts no visit to i.
C6_NoContactAfterGMResign ==
  [][\A i \in Players :
       GMResignedTo(i) =>
         /\ inHist'[i] = inHist[i]
         /\ Len(playerToGM'[i]) >= Len(playerToGM[i])
         /\ i \in finished'
         /\ Len(sweepLog') > Len(sweepLog) => sweepLog'[Len(sweepLog')] # i]_vars

\* a later sweep has passed the board the grandmaster resigned at
C6_Witness ==
  \E i \in Players : GMResignedTo(i) /\ i \in sweepSkip

\* ---- C7 -----------------------------------------------------------------
\* C7 as stated: no signal is put on player i's inbound channel after
\* player i has put RESIGN.
C7_Original ==
  [][\A i \in Players : PlayerResigned(i) => inHist'[i] = inHist[i]]_vars

\* C7 amended: once the grandmaster has dequeued player i's RESIGN, player i
\* is in the finished set and nothing more is put on its inbound channel.
C7_NothingAfterResignCollected ==
  /\ [](\A i \in Players : ResignCollected(i) => i \in finished)
  /\ [][\A i \in Players : ResignCollected(i) => inHist'[i] = inHist[i]]_vars

\* a player resigned in its first round, the grandmaster collected the
\* RESIGN and a later sweep has passed the board
C7_Witness ==
  \E i \in Players :
    /\ ResignCollected(i)
    /\ outHist[i] = <<RESIGN>>
    /\ inHist[i] = <<GRANDMASTER_ARRIVES>>
    /\ i \in sweepSkip

\* ---- C8 -----------------------------------------------------------------
Ascending(q) == \A k \in 1 .. (Len(q) - 1) : q[k] < q[k + 1]

\* the grandmaster's interaction with board i is over
VisitComplete(i) ==
  \/ inHist[i] # <<>> /\ inHist[i][Len(inHist[i])] \in {MAKE_MOVE, RESIGN}
  \/ ResignCollected(i)

\* the boards the for loop has reached in the current sweep
Reached ==
  CASE gpc \in {"get", "sleep"} -> 0 .. gi
    [] gpc \in {"for", "while"} -> 0 .. (gi - 1)
    [] OTHER -> {}

SweepInv ==
  /\ Ascending(sweepLog)
  /\ Range(sweepLog) \cap sweepSkip = {}
  /\ Range(sweepLog) \cup sweepSkip = Reached
  /\ gpc = "while" /\ gi # 0 => Reached = Players
  /\ sweepSkip \subseteq finished
  /\ \A k \in 1 .. Len(sweepLog) :
       (k < Len(sweepLog) \/ gpc \in {"for", "while"}) => VisitComplete(sweepLog[k])

SweepStep ==
  /\ \A j \in Players :
       (inHist'[j] # inHist[j] \/ Len(playerToGM'[j]) < Len(playerToGM[j]))
         => sweepLog' # <<>> /\ sweepLog'[Len(sweepLog')] = j
  /\ Len(sweepLog') > Len(sweepLog) => sweepLog'[Len(sweepLog')] \notin finished

\* C8: in one sweep the boards are reached in ascending order 0..N-1, each
\* once; a board is visited iff it is unfinished when reached; the
\* grandmaster touches only the channels of the board it is visiting and
\* leaves a board only when its interaction there is over.
C8_SweepOrder == []SweepInv /\ [][SweepStep]_vars

\* a sweep that is over, with a board visited and a board skipped
C8_Witness ==
  /\ gpc = "while"
  /\ sweepLog # <<>>
  /\ sweepSkip # {}
  /\ Len(sweepLog) + Cardinality(sweepSkip) = NumPlayers

\* ---- C9 -----------------------------------------------------------------
\* C9: finished_player_ids holds player indices only, so at most NumPlayers
\* of them, and no step removes an element from it.
C9_FinishedGrows ==
  /\ [](finished \subseteq Players /\ Cardinality(finished) <= NumPlayers)
  /\ [][finished \subseteq finished' /\ Cardinality(finished') >= Cardinality(finished)]_vars

C9_Witness == finished = Players /\ gpc = "while"

\* ---- C10 ----------------------------------------------------------------
\* C10 as stated: the grandmaster has exited only with a full finished set
\* and only when every player has exited.
C10_Original ==
  gpc = "done" =>
    /\ Cardinality(finished) = NumPlayers
    /\ \A i \in Players : pc[i] = "done"

\* the grandmaster's RESIGN is still on its way to player i
ResignInFlight(i) == pc[i] = "wait" /\ RESIGN \in Range(gmToPlayer[i])

\* C10 amended: the while loop is left exactly when the finished set is full,
\* and when the grandmaster has exited every player has exited or is in its
\* wait loop with the grandmaster's RESIGN not yet dequeued.
C10_GMExit ==
  /\ [](gpc = "done" =>
          /\ Cardinality(finished) = NumPlayers
          /\ \A i \in Players : pc[i] = "done" \/ ResignInFlight(i))
  /\ [][gpc = "while" /\ gpc' # "while" =>
          (gpc' = "done" <=> Cardinality(finished) = NumPlayers)]_vars

C10_Witness == gpc = "done" /\ \E i \in Players : ResignInFlight(i)

\* ---- C11 ----------------------------------------------------------------
\* a grandmaster response is waiting in player i's inbound channel
ReplyPending(i) == Range(gmToPlayer[i]) \cap {MAKE_MOVE, RESIGN} # {}

LeftoverInv ==
  AllExited =>
    \A i \in Players :
      /\ playerToGM[i] = <<>>
      /\ gmToPlayer[i] \in {<<>>, <<GRANDMASTER_ARRIVES>>}
      /\ gmToPlayer[i] # <<>> => PlayerResigned(i) /\ getTask[i] = "cancelled"

\* a signal of player i or a grandmaster response to player i is undequeued
Undelivered(i) == playerToGM[i] # <<>> \/ ReplyPending(i)

ArrivalsTaken(i) == Visits(i) - Count(gmToPlayer[i], GRANDMASTER_ARRIVES)

\* a receive that had not completed when the race was decided never
\* completes afterwards, so a cancelled receive dequeues nothing
CancelledReceiveInert ==
  [][\A i \in Players :
       (pc[i] \in {"wait", "done"} /\ getTask'[i] = "done") => getTask[i] = "done"]_vars

\* C12: in a round in which finished_thinking is true the receive of the race
\* was cancelled and has dequeued nothing, so the GRANDMASTER_ARRIVES of the
\* visit is dequeued in the wait loop, where it is the first value read.
C12_TimerWinsKeepsArrival ==
  \A i \in Players :
    (pc[i] = "wait" /\ finThink[i]) =>
       /\ getTask[i] = "cancelled"
       /\ ArrivalsTaken(i) < moveIdx[i] /\ gmToPlayer[i] # <<>>
            => Head(gmToPlayer[i]) = GRANDMASTER_ARRIVES

\* ---- C13 ----------------------------------------------------------------
\* so far no player has drawn has_resigned and the grandmaster has drawn
\* should_resign at every contact
ForcedGMResign ==
  \A i \in Players : ~PlayerResigned(i) /\ MAKE_MOVE \notin Range(inHist[i])

OneSweepInv ==
  ForcedGMResign =>
    /\ \A i \in Players :
         /\ Visits(i) <= 1
         /\ MovesSent(i) <= 1
         /\ i \in finished <=> GMResignedTo(i)
         /\ pc[i] = "done" => inHist[i] = <<GRANDMASTER_ARRIVES, RESIGN>>
    /\ finished = IF gpc = "done" THEN Players ELSE {i \in Players : i < gi}
    /\ gpc = "done" => \A i \in Players :
                          outHist[i] = <<MAKE_MOVE>> /\ inHist[i] = <<GRANDMASTER_ARRIVES, RESIGN>>

\* C13: when the grandmaster resigns at every first contact and no player
\* resigns, the boards are finished in the order 0..N-1 in the first sweep,
\* each after one MAKE_MOVE of its player and one RESIGN of the grandmaster,
\* no board is visited twice, and every actor and main return.
C13_OneSweep ==
  /\ []OneSweepInv
  /\ <>(~ForcedGMResign \/ (AllExited /\ mainPc = "returned"))

C13_Witness ==
  /\ ForcedGMResign
  /\ AllExited
  /\ mainPc = "returned"
  /\ \A i \in Players : moveIdx[i] = 1 /\ inHist[i] = <<GRANDMASTER_ARRIVES, RESIGN>>

\* ---- C14 ----------------------------------------------------------------
\* C14: a player exits only in the step in which it puts RESIGN or in the
\* step of its wait loop in which it dequeues RESIGN; while neither it nor
\* the grandmaster has resigned at its board, the player has not exited, the
\* grandmaster has not exited and main has not returned.
C14_TwoExits ==
  /\ [](\A i \in Players :
          (~PlayerResigned(i) /\ ~GMResignedTo(i)) =>
             pc[i] # "done" /\ gpc # "done" /\ mainPc # "returned")
  /\ [][\A i \in Players :
          (pc[i] # "done" /\ pc'[i] = "done") =>
             \/ pc[i] = "race" /\ outHist'[i] = Append(outHist[i], RESIGN)
             \/ /\ pc[i] = "wait"
                /\ gmToPlayer[i] # <<>>
                /\ Head(gmToPlayer[i]) = RESIGN
                /\ gmToPlayer'[i] = Tail(gmToPlayer[i])]_vars

\* one player has left by its own RESIGN, another by the grandmaster's
C14_Witness ==
  \E i, j \in Players :
    /\ pc[i] = "done" /\ PlayerResigned(i)
    /\ pc[j] = "done" /\ GMResignedTo(j)

\* ---- C15 ----------------------------------------------------------------
\* C15: while a player is in the race its inbound channel holds nothing but
\* GRANDMASTER_ARRIVES, and every value grandmaster_arrives_task dequeues is
\* GRANDMASTER_ARRIVES.
C15_RaceReceiveYieldsArrival ==
  /\ [](\A i \in Players :
          pc[i] = "race" => Range(gmToPlayer[i]) \subseteq {GRANDMASTER_ARRIVES})
  /\ [][\A i \in Players :
          (getTask[i] = "pending" /\ getTask'[i] = "done") =>
             Head(gmToPlayer[i]) = GRANDMASTER_ARRIVES]_vars

\* the receive of the race of a second round has taken an arrival
C15_Witness ==
  \E i \in Players :
    /\ pc[i] = "race"
    /\ moveIdx[i] = 2
    /\ getTask[i] = "done"
    /\ ArrivalsTaken(i) = 2

\* ---- C16 ----------------------------------------------------------------
\* a step of the wait loop of player i that dequeues a value
WaitLoopGet(i) ==
  pc[i] = "wait" /\ Len(gmToPlayer'[i]) < Len(gmToPlayer[i])

\* C16: in the wait loop a dequeued GRANDMASTER_ARRIVES leaves the player
\* where it is, a dequeued MAKE_MOVE takes it to the race of the next round
\* with the move index one higher, a dequeued RESIGN makes it exit; the wait
\* loop is left in no other way and puts nothing on the outbound channel.
C16_WaitLoop ==
  [][\A i \in Players :
       /\ pc[i] = "wait" => outHist'[i] = outHist[i]
       /\ (pc[i] = "wait" /\ pc'[i] # "wait") => WaitLoopGet(i)
       /\ WaitLoopGet(i) =>
            /\ Head(gmToPlayer[i]) = GRANDMASTER_ARRIVES =>
                 /\ pc'[i] = "wait"
                 /\ moveIdx'[i] = moveIdx[i]
                 /\ thinkTask'[i] = thinkTask[i] /\ getTask'[i] = getTask[i]
            /\ Head(gmToPlayer[i]) = MAKE_MOVE =>
                 pc'[i] = "race" /\ moveIdx'[i] = moveIdx[i] + 1
            /\ Head(gmToPlayer[i]) = RESIGN =>
                 pc'[i] = "done" /\ moveIdx'[i] = moveIdx[i]]_vars

\* the wait loop has dequeued the arrival and goes on waiting for the reply
C16_Witness ==
  \E i \in Players :
    /\ pc[i] = "wait"
    /\ getTask[i] = "cancelled"
    /\ ArrivalsTaken(i) = moveIdx[i]
    /\ gmToPlayer[i] = <<>>
    /\ gpc = "sleep"
    /\ gi = i

\* ---- C17 ----------------------------------------------------------------
\* C17: player i is in finished_player_ids exactly when the grandmaster has
\* dequeued a RESIGN of player i or has put a RESIGN for player i, and never
\* both have resigned at one board.
C17_FinishedIff ==
  \A i \in Players :
    /\ i \in finished <=> (ResignCollected(i) \/ GMResignedTo(i))
    /\ ~(PlayerResigned(i) /\ GMResignedTo(i))

\* both kinds of finished board, the grandmaster still on its round
C17_Witness ==
  \E i, j \in Players :
    /\ ResignCollected(i) /\ i \in finished
    /\ GMResignedTo(j) /\ j \in finished
    /\ pc[j] = "wait"

\* ---- C18 ----------------------------------------------------------------
\* C18: an outbound channel never holds more than 1 signal and an inbound
\* channel never more than 3.
C18_ChannelBounds ==
  \A i \in Players : Len(playerToGM[i]) <= 1 /\ Len(gmToPlayer[i]) <= 3

\* a reply and the arrival of the next sweep wait together while another
\* player's move waits for the grandmaster
C18_Witness ==
  \E i, j \in Players :
    /\ gmToPlayer[i] = <<MAKE_MOVE, GRANDMASTER_ARRIVES>>
    /\ Len(playerToGM[j]) = 1

\* ---- C19 ----------------------------------------------------------------
\* C19: a player has dequeued one GRANDMASTER_ARRIVES for every grandmaster
\* response it has dequeued and at most one more; the arrivals it has
\* dequeued never exceed its move index, and its move index never exceeds
\* the visits the grandmaster has started to it plus 1.
C19_ArrivalAccounting ==
  \A i \in Players :
    /\ RepliesTaken(i) <= ArrivalsTaken(i)
    /\ ArrivalsTaken(i) <= RepliesTaken(i) + 1
    /\ ArrivalsTaken(i) <= moveIdx[i]
    /\ moveIdx[i] <= Visits(i) + 1
    /\ (pc[i] = "race" /\ getTask[i] = "pending") => ArrivalsTaken(i) = moveIdx[i] - 1

\* two completed rounds of one player, one arrival taken in the race and one
\* in the wait loop
C19_Witness ==
  \E i \in Players :
    /\ RepliesTaken(i) = 2
    /\ ArrivalsTaken(i) = 2
    /\ moveIdx[i] = 2
    /\ pc[i] = "done"

\* ---- C20 ----------------------------------------------------------------
\* C20: once the grandmaster has exited every player exits and main returns,
\* and main has returned only when the grandmaster and every player have
\* exited.
C20_DriverCompletes ==
  /\ [](mainPc = "returned" => AllExited)
  /\ (gpc = "done") ~> (AllExited /\ mainPc = "returned")

\* main has returned after the last player took the grandmaster's RESIGN
C20_Witness ==
  /\ mainPc = "returned"
  /\ \E i \in Players : GMResignedTo(i) /\ pc[i] = "done" /\ gmToPlayer[i] = <<>>
====
